---- MODULE Spec2Model ----
(***************************************************************************)
(* A model of private_gpt/ui/ui.py: the Source value object and its        *)
(* curation, the streaming aggregator PrivateGptUi.yield_deltas, the       *)
(* corpus handlers (_upload_file, _delete_*, selection) and the            *)
(* questionnaire handlers (_process_upload, _answer_questionnaire,         *)
(* _generate_pdf).                                                         *)
(*                                                                         *)
(* Python str values are TLA+ strings: + is \o, len is Len, s[i] is        *)
(* SubSeq(s, i, i).  A Python list is a sequence.  None, where a field may *)
(* hold it, is a record flag (none |-> TRUE), so that a value and None     *)
(* stay comparable.  A dict is a set of <<key, value>> pairs.              *)
(***************************************************************************)
EXTENDS Integers, Sequences, FiniteSets, TLC

VARIABLES
    \* ---- yield_deltas: one run of the generator
    stream,          \* completion_gen.response: the deltas of the stream
    sources,         \* completion_gen.sources: None or a list of Chunks
    pos,             \* index of the next delta the for loop pulls
    full_response,   \* the local full_response
    cur_sources,     \* the local cur_sources (curated Sources), [] until computed
    yielded,         \* the elements the generator has yielded so far
    spc,             \* "idle" (no run) | "loop" | "done" | "NameError"
    \* ---- the corpus handlers
    corpus,          \* IngestService.list_ingested(): the Documents, in order
    next_doc_id,     \* the next doc_id the ingestion collaborator hands out
    selected_filename,  \* self._selected_filename: None or a str
    clast,           \* the last corpus handler call: its arguments, the state before it, its outcome
    corpus_session,  \* the client session whose event made that call (0: none yet)
    selected_by,     \* the session whose event last assigned self._selected_filename (0: __init__)
    selection_of,    \* per session, the row it selected last (None: none, or deselected)
    \* ---- the questionnaire handlers
    questions,       \* self.questions: the value json.loads returned ([] at construction)
    answers,         \* self.answers: the list of (question, answer) pairs
    pdf_file,        \* the file at /mnt/data/filled_questionnaire.pdf: absent, or its text blocks
    qlast,           \* the last questionnaire handler call: its inputs, the state before it, its outcome
    quest_session,   \* the client session whose event made that call (0: none yet)
    answers_by,      \* the session whose answering run last assigned self.answers (0: __init__)
    has_answered,    \* some call of _answer_questionnaire has returned
    \* ---- the clients
    sessions         \* the client sessions served by the one PrivateGptUi instance

streamVars == <<stream, sources, pos, full_response, cur_sources, yielded, spc>>

corpusVars == <<corpus, next_doc_id, selected_filename, clast,
               corpus_session, selected_by, selection_of>>

questVars == <<questions, answers, pdf_file, qlast, quest_session, answers_by, has_answered>>

vars == <<streamVars, corpusVars, questVars, sessions>>

\* What a step of one part leaves alone: the state of the other parts, and
\* the set of sessions.
otherThanStream == <<corpusVars, questVars, sessions>>
otherThanCorpus == <<streamVars, questVars, sessions>>
otherThanQuest == <<streamVars, corpusVars, sessions>>

-----------------------------------------------------------------------------
(* Bounds of the model *)

MaxDeltas == 2
MaxSources == 3
\* Documents in the corpus when the UI is constructed, files per upload, and
\* the doc_ids the ingestion collaborator may hand out.
MaxInitDocs == 2
MaxFiles == 2
MaxDocId == 4

-----------------------------------------------------------------------------
(* Generic helpers *)

\* All sequences over S of length at most n.
SeqsUpTo(S, n) == UNION {[1..k -> S] : k \in 0..n}

Range(s) == {s[i] : i \in DOMAIN s}

\* a is a prefix of b (b extends a), on strings.
IsPrefix(a, b) == Len(a) <= Len(b) /\ SubSeq(b, 1, Len(a)) = a

\* dict.get(key, default) on a dict held as a set of <<key, value>> pairs.
DictGet(d, key, default) ==
    IF \E p \in d : p[1] = key
    THEN (CHOOSE p \in d : p[1] = key)[2]
    ELSE default

DictHas(d, key) == \E p \in d : p[1] = key

\* doc_metadata: None, or a dict (possibly empty).
NoneMeta == [none |-> TRUE, map |-> {}]
Meta(d) == [none |-> FALSE, map |-> d]

\* Python truthiness of doc_metadata: None and the empty dict are falsy.
MetaTruthy(md) == ~md.none /\ md.map # {}

-----------------------------------------------------------------------------
(* The parts of the program share no state, so each is specified with the *)
(* others at rest.                                                         *)

\* No generator is running.
IdleStream ==
    /\ stream = <<>>
    /\ sources = [none |-> TRUE, items |-> <<>>]
    /\ pos = 1
    /\ full_response = ""
    /\ cur_sources = <<>>
    /\ yielded = <<>>
    /\ spc = "idle"

\* The corpus handlers are not called.
IdleCorpus ==
    /\ corpus = <<>>
    /\ next_doc_id = 1
    /\ selected_filename = [none |-> TRUE, val |-> ""]
    /\ clast = [op |-> "init", status |-> "ok", files |-> <<>>, listed |-> {},
                pre_corpus |-> <<>>, pre_selected |-> [none |-> TRUE, val |-> ""]]
    /\ corpus_session = 0
    /\ selected_by = 0
    /\ selection_of = [s \in sessions |-> [none |-> TRUE, val |-> ""]]

\* The questionnaire handlers are not called: the state of __init__.
IdleQuest ==
    /\ questions = [kind |-> "list", str |-> "", items |-> <<>>, vals |-> <<>>]
    /\ answers = <<>>
    /\ pdf_file = [exists |-> FALSE, blocks |-> <<>>]
    /\ qlast = [op |-> "init", status |-> "ok", result |-> "",
                file |-> [none |-> TRUE, val |-> ""],
                response |-> [none |-> TRUE, val |-> ""],
                replies |-> <<>>,
                pre_questions |-> [kind |-> "list", str |-> "", items |-> <<>>, vals |-> <<>>],
                pre_answers |-> <<>>]
    /\ quest_session = 0
    /\ answers_by = 0
    /\ has_answered = FALSE


-----------------------------------------------------------------------------
(* Source and Source.curate_sources *)

SOURCES_SEPARATOR == "\n\n Sources: \n"

Source(f, p, t) == [file |-> f, page |-> p, text |-> t]

\* list(dict.fromkeys(l).keys()): the distinct elements of l in first-seen order.
RECURSIVE UniqueKeepFirst(_)
UniqueKeepFirst(l) ==
    IF l = <<>> THEN <<>>
    ELSE LET init == UniqueKeepFirst(SubSeq(l, 1, Len(l) - 1))
             last == l[Len(l)]
         IN IF last \in Range(init) THEN init ELSE Append(init, last)

\* The Source built from one chunk (ui.py lines 46-51).
ChunkSource(chunk) ==
    LET doc_metadata == chunk.document.doc_metadata
        file_name == IF MetaTruthy(doc_metadata)
                     THEN DictGet(doc_metadata.map, "file_name", "-") ELSE "-"
        page_label == IF MetaTruthy(doc_metadata)
                      THEN DictGet(doc_metadata.map, "page_label", "-") ELSE "-"
    IN Source(file_name, page_label, chunk.text)

\* One iteration of the loop: append, then make unique.
CurateStep_NoDedup(curated, chunk) == Append(curated, ChunkSource(chunk))

CurateStep(curated, chunk) == UniqueKeepFirst(Append(curated, ChunkSource(chunk)))

RECURSIVE curate_sources(_)
curate_sources(chunks) ==
    IF chunks = <<>> THEN <<>>
    ELSE CurateStep(curate_sources(SubSeq(chunks, 1, Len(chunks) - 1)),
                    chunks[Len(chunks)])

-----------------------------------------------------------------------------
(* yield_deltas *)

PlainDelta(t) == [kind |-> "str", text |-> t]
StructuredDelta(t) == [kind |-> "ChatResponse", text |-> t]

Chunk(md, t) == [document |-> [doc_metadata |-> md], text |-> t]

\* The inputs the model draws from.
Deltas == {PlainDelta(""), PlainDelta("a"), PlainDelta("b"), StructuredDelta("c")}

Chunks ==
    { Chunk(NoneMeta, "t"),
      Chunk(Meta({}), "t"),
      Chunk(Meta({<<"page_label", "2">>}), "t"),
      Chunk(Meta({<<"file_name", "r-1">>, <<"page_label", "2">>}), "t"),
      Chunk(Meta({<<"file_name", "r">>, <<"page_label", "1-2">>}), "t"),
      Chunk(Meta({<<"file_name", "r">>, <<"page_label", "1-2">>}), "u") }

NoSources == [none |-> TRUE, items |-> <<>>]
SomeSources(l) == [none |-> FALSE, items |-> l]

\* `if completion_gen.sources:` -- None and [] are falsy.
SourcesTruthy(s) == ~s.none /\ s.items # <<>>

\* The key of the used_files set: f"{source.file}-{source.page}".
UsedKey(source) == source.file \o "-" \o source.page

\* The citation lines the loop of lines 109-115 emits: the enumerate index
\* (from 1) and the source of every source whose key was not used before.
RECURSIVE CitationLines(_)
CitationLines(cur) ==
    IF cur = <<>> THEN <<>>
    ELSE LET n == Len(cur)
             init == SubSeq(cur, 1, n - 1)
             used_files == {UsedKey(init[i]) : i \in 1..(n - 1)}
         IN IF UsedKey(cur[n]) \notin used_files
            THEN Append(CitationLines(init), [index |-> n, source |-> cur[n]])
            ELSE CitationLines(init)

\* f"{index}. {source.file} (page {source.page}) \n\n"
CitationLine(l) ==
    ToString(l.index) \o ". " \o l.source.file
        \o " (page " \o l.source.page \o ") \n\n"

RECURSIVE JoinLines(_)
JoinLines(ls) ==
    IF ls = <<>> THEN "" ELSE CitationLine(Head(ls)) \o JoinLines(Tail(ls))

\* sources_text as built by lines 107-115.
SourcesText(cur) == "\n\n\n" \o JoinLines(CitationLines(cur))

\* full_response after consuming a plain-string delta (line 98).
AppendDelta_Replace(full, delta) == delta.text

AppendDelta(full, delta) == full \o delta.text

\* What the generator yields once the stream is exhausted (lines 104-117).
FinalYield_OnlyWithSources(full, srcs) ==
    IF SourcesTruthy(srcs)
    THEN <<full \o SOURCES_SEPARATOR \o SourcesText(curate_sources(srcs.items))>>
    ELSE <<>>

FinalYield(full, srcs) ==
    IF SourcesTruthy(srcs)
    THEN <<full \o SOURCES_SEPARATOR \o SourcesText(curate_sources(srcs.items))>>
    ELSE <<full>>

InitStream ==
    /\ sessions = {1}
    /\ IdleCorpus
    /\ IdleQuest
    /\ stream \in SeqsUpTo(Deltas, MaxDeltas)
    /\ sources \in {NoSources} \cup {SomeSources(l) : l \in SeqsUpTo(Chunks, MaxSources)}
    /\ pos = 1
    /\ full_response = ""
    /\ cur_sources = <<>>
    /\ yielded = <<>>
    /\ spc = "loop"

\* One iteration of `for delta in stream` on a plain string: lines 97-98, 101.
YieldPlainDelta ==
    /\ spc = "loop"
    /\ pos <= Len(stream)
    /\ stream[pos].kind = "str"
    /\ full_response' = AppendDelta(full_response, stream[pos])
    /\ yielded' = Append(yielded, full_response')
    /\ pos' = pos + 1
    /\ UNCHANGED <<stream, sources, cur_sources, spc>>
    /\ UNCHANGED otherThanStream

\* One iteration on a delta that is not a str: line 99 evaluates the name
\* ChatResponse, which the module never imports, and raises NameError.
RaiseOnStructuredDelta ==
    /\ spc = "loop"
    /\ pos <= Len(stream)
    /\ stream[pos].kind # "str"
    /\ spc' = "NameError"
    /\ UNCHANGED <<stream, sources, pos, full_response, cur_sources, yielded>>
    /\ UNCHANGED otherThanStream

\* The stream is exhausted: lines 104-117.
FinishStream ==
    /\ spc = "loop"
    /\ pos > Len(stream)
    /\ cur_sources' = IF SourcesTruthy(sources)
                      THEN curate_sources(sources.items) ELSE cur_sources
    /\ LET out == FinalYield(full_response, sources)
       IN /\ yielded' = yielded \o out
          /\ full_response' = IF out = <<>> THEN full_response ELSE out[1]
    /\ spc' = "done"
    /\ UNCHANGED <<stream, sources, pos>>
    /\ UNCHANGED otherThanStream

NextStream == YieldPlainDelta \/ RaiseOnStructuredDelta \/ FinishStream

SpecStream == InitStream /\ [][NextStream]_vars

-----------------------------------------------------------------------------
(* The document corpus: _list_ingested_files, _upload_file, _delete_*, and *)
(* the selection handlers                                                  *)

\* Optional values: None, or a value.
None == [none |-> TRUE, val |-> ""]
Some(v) == [none |-> FALSE, val |-> v]

Document(id, md) == [doc_id |-> id, doc_metadata |-> md]

FILE_NAME_MISSING == "[FILE NAME MISSING]"

\* Path(p).name: what follows the last "/" of p.
RECURSIVE PathName(_)
PathName(p) ==
    IF p = "" THEN ""
    ELSE IF SubSeq(p, Len(p), Len(p)) = "/" THEN ""
    ELSE PathName(SubSeq(p, 1, Len(p) - 1)) \o SubSeq(p, Len(p), Len(p))

\* The inputs the model draws from.
UploadPaths == {"/t1/a.pdf", "/t2/a.pdf", "/t1/b.pdf"}

FileNames == {PathName(p) : p \in UploadPaths}

\* The doc_metadata a Document found at construction may carry.
DocMetas ==
    { NoneMeta, Meta({}), Meta({<<"page_label", "1">>}) }
    \cup { Meta({<<"file_name", f>>}) : f \in FileNames }

\* IngestService.delete(doc_id) for every doc_id of ids: the documents left,
\* in their order.
RECURSIVE DeleteDocs(_, _)
DeleteDocs(docs, ids) ==
    IF docs = <<>> THEN <<>>
    ELSE IF Head(docs).doc_id \in ids THEN DeleteDocs(Tail(docs), ids)
    ELSE <<Head(docs)>> \o DeleteDocs(Tail(docs), ids)

\* _list_ingested_files: the set of file names shown in the list.
list_ingested_files(docs) ==
    { DictGet(docs[i].doc_metadata.map, "file_name", FILE_NAME_MISSING) :
        i \in {j \in DOMAIN docs : ~docs[j].doc_metadata.none} }

\* doc_metadata["file_name"] raises KeyError at this document: the metadata
\* is truthy (the `and` goes on to the subscript) and has no such key.
RaisesKeyError(d) ==
    MetaTruthy(d.doc_metadata) /\ ~DictHas(d.doc_metadata.map, "file_name")

\* The index of the first document of docs whose scan raises KeyError,
\* Len(docs) + 1 when none does.
FirstKeyError(docs) ==
    IF \E i \in DOMAIN docs : RaisesKeyError(docs[i])
    THEN CHOOSE i \in DOMAIN docs :
            /\ RaisesKeyError(docs[i])
            /\ \A j \in 1..(i - 1) : ~RaisesKeyError(docs[j])
    ELSE Len(docs) + 1

\* file_names of _upload_file (lines 203-206).
UploadNames(files) == [i \in DOMAIN files |-> PathName(files[i])]

\* doc_ids_to_delete of _upload_file (lines 207-214), when no KeyError.
DocIdsToDelete_AnyNamed(docs, file_names) ==
    { docs[i].doc_id : i \in { j \in DOMAIN docs : MetaTruthy(docs[j].doc_metadata) } }

DocIdsToDelete(docs, file_names) ==
    { docs[i].doc_id : i \in { j \in DOMAIN docs :
        /\ MetaTruthy(docs[j].doc_metadata)
        /\ DictGet(docs[j].doc_metadata.map, "file_name", "") \in Range(file_names) } }

\* IngestService.bulk_ingest([(name, path)]): one Document per file, with a
\* fresh doc_id and the file's name as its file_name.
BulkIngest(docs, file_names, first_id) ==
    docs \o [i \in DOMAIN file_names |->
                Document(first_id + i - 1, Meta({<<"file_name", file_names[i]>>}))]

\* The corpus _upload_file leaves when bulk_ingest raises (line 223): the
\* deletions of lines 220-221 have been made, and nothing handles the error.
CorpusAfterFailedIngest_RolledBack(before, kept) == before

CorpusAfterFailedIngest(before, kept) == kept

CallRecord(op, status, files, listed) ==
    [op |-> op, status |-> status, files |-> files, listed |-> listed,
     pre_corpus |-> corpus, pre_selected |-> selected_filename]

InitCorpus ==
    /\ sessions = {1}
    /\ IdleStream
    /\ IdleQuest
    /\ \E metas \in SeqsUpTo(DocMetas, MaxInitDocs) :
          corpus = [i \in DOMAIN metas |-> Document(i, metas[i])]
    /\ next_doc_id = Len(corpus) + 1
    /\ selected_filename = None
    /\ clast = [op |-> "init", status |-> "ok", files |-> <<>>, listed |-> {},
                pre_corpus |-> <<>>, pre_selected |-> None]
    /\ corpus_session = 0
    /\ selected_by = 0
    /\ selection_of = [s \in sessions |-> None]

\* _upload_file(files); the collaborator's bulk_ingest succeeds or raises.
UploadFile ==
    \E files \in SeqsUpTo(UploadPaths, MaxFiles), ingest_ok \in BOOLEAN :
        /\ files # <<>>
        /\ next_doc_id + Len(files) - 1 <= MaxDocId
        /\ LET file_names == UploadNames(files)
           IN IF FirstKeyError(corpus) <= Len(corpus)
              THEN /\ clast' = CallRecord("upload", "KeyError", files, {})
                   /\ UNCHANGED <<corpus, next_doc_id>>
              ELSE LET kept == DeleteDocs(corpus, DocIdsToDelete(corpus, file_names))
                   IN IF ingest_ok
                      THEN /\ corpus' = BulkIngest(kept, file_names, next_doc_id)
                           /\ next_doc_id' = next_doc_id + Len(files)
                           /\ clast' = CallRecord("upload", "ok", files, {})
                      ELSE /\ corpus' = CorpusAfterFailedIngest(corpus, kept)
                           /\ UNCHANGED next_doc_id
                           /\ clast' = CallRecord("upload", "IngestError", files, {})
        /\ corpus_session' \in sessions
        /\ UNCHANGED <<selected_filename, selected_by, selection_of>>
        /\ UNCHANGED otherThanCorpus

\* The doc_ids _delete_all_files deletes: that of every Document that
\* list_ingested() returns (lines 226-229).
AllDocIds_Listed(docs) ==
    { docs[i].doc_id : i \in {j \in DOMAIN docs : ~docs[j].doc_metadata.none} }

AllDocIds(docs) == { docs[i].doc_id : i \in DOMAIN docs }

\* _delete_all_files
DeleteAllFiles ==
    /\ corpus' = DeleteDocs(corpus, AllDocIds(corpus))
    /\ clast' = CallRecord("delete_all", "ok", <<>>, list_ingested_files(corpus'))
    /\ corpus_session' \in sessions
    /\ UNCHANGED <<next_doc_id, selected_filename, selected_by, selection_of>>
    /\ UNCHANGED otherThanCorpus

\* The doc_ids _delete_selected_file deletes among the first n documents.
SelectedDocIds_FirstMatch(docs, n, sel) ==
    LET matches == { j \in 1..n :
                       /\ MetaTruthy(docs[j].doc_metadata)
                       /\ ~sel.none
                       /\ DictGet(docs[j].doc_metadata.map, "file_name", "") = sel.val }
    IN { docs[i].doc_id : i \in { j \in matches : \A k \in matches : j <= k } }

SelectedDocIds(docs, n, sel) ==
    { docs[i].doc_id : i \in { j \in 1..n :
        /\ MetaTruthy(docs[j].doc_metadata)
        /\ ~sel.none
        /\ DictGet(docs[j].doc_metadata.map, "file_name", "") = sel.val } }

\* _delete_selected_file: the loop deletes as it goes, so a KeyError leaves
\* the documents deleted before it out of the corpus.
DeleteSelectedFile ==
    /\ LET bad == FirstKeyError(corpus)
       IN IF bad <= Len(corpus)
          THEN /\ corpus' = DeleteDocs(corpus,
                                SelectedDocIds(corpus, bad - 1, selected_filename))
               /\ clast' = CallRecord("delete_selected", "KeyError", <<>>, {})
          ELSE /\ corpus' = DeleteDocs(corpus,
                                SelectedDocIds(corpus, Len(corpus), selected_filename))
               /\ clast' = CallRecord("delete_selected", "ok", <<>>,
                                      list_ingested_files(corpus'))
    /\ corpus_session' \in sessions
    /\ UNCHANGED <<next_doc_id, selected_filename, selected_by, selection_of>>
    /\ UNCHANGED otherThanCorpus

\* _deselect_selected_file
DeselectSelectedFile ==
    \E session \in sessions :
        /\ selected_filename' = None
        /\ clast' = CallRecord("deselect", "ok", <<>>, {})
        /\ corpus_session' = session
        /\ selected_by' = session
        /\ selection_of' = [selection_of EXCEPT ![session] = None]
        /\ UNCHANGED <<corpus, next_doc_id>>
        /\ UNCHANGED otherThanCorpus

\* _selected_a_file(select_data): a row of the list of ingested files.
SelectedAFile ==
    \E session \in sessions, value \in FileNames \cup {FILE_NAME_MISSING} :
        /\ selected_filename' = Some(value)
        /\ clast' = CallRecord("select", "ok", <<>>, {})
        /\ corpus_session' = session
        /\ selected_by' = session
        /\ selection_of' = [selection_of EXCEPT ![session] = Some(value)]
        /\ UNCHANGED <<corpus, next_doc_id>>
        /\ UNCHANGED otherThanCorpus

NextCorpus ==
    \/ UploadFile
    \/ DeleteAllFiles
    \/ DeleteSelectedFile
    \/ DeselectSelectedFile
    \/ SelectedAFile

SpecCorpus == InitCorpus /\ [][NextCorpus]_vars

-----------------------------------------------------------------------------
(* Python values as json.loads returns them, and json.loads itself         *)

\* A value: its kind, the text of a str or a number, the items of a list or
\* the keys of a dict, and the values of a dict.
PyStr(t) == [kind |-> "str", str |-> t, items |-> <<>>, vals |-> <<>>]
PyNum(t) == [kind |-> "num", str |-> t, items |-> <<>>, vals |-> <<>>]
PyLiteral(t) == [kind |-> t, str |-> t, items |-> <<>>, vals |-> <<>>]
PyList(l) == [kind |-> "list", str |-> "", items |-> l, vals |-> <<>>]
PyDict(keys, values) == [kind |-> "dict", str |-> "", items |-> keys, vals |-> values]

\* The character of s at index i, "" past its end.
Ch(s, i) == IF i >= 1 /\ i <= Len(s) THEN SubSeq(s, i, i) ELSE ""

Digits == {"0", "1", "2", "3", "4", "5", "6", "7", "8", "9"}
Whitespace == {" ", "\n", "\t"}

\* The first index at or after i that holds no whitespace.
RECURSIVE SkipWs(_, _)
SkipWs(s, i) == IF Ch(s, i) \in Whitespace THEN SkipWs(s, i + 1) ELSE i

\* The first index at or after i that holds no digit.
RECURSIVE ScanDigits(_, _)
ScanDigits(s, i) == IF Ch(s, i) \in Digits THEN ScanDigits(s, i + 1) ELSE i

\* The index of the first double quote at or after i, 0 when there is none
\* (an unterminated string).  Escapes are outside the texts modelled.
RECURSIVE ScanQuote(_, _)
ScanQuote(s, i) ==
    IF i > Len(s) THEN 0
    ELSE IF Ch(s, i) = "\"" THEN i
    ELSE ScanQuote(s, i + 1)

ParseFail == [ok |-> FALSE, val |-> PyLiteral("null"), next |-> 0]
ParseOk(v, n) == [ok |-> TRUE, val |-> v, next |-> n]

\* A dict with key k set to v: a new key goes last, a repeated key keeps its
\* place and takes the new value.
DictSet(keys, values, k, v) ==
    IF \E i \in DOMAIN keys : keys[i] = k
    THEN <<keys, [i \in DOMAIN values |-> IF keys[i] = k THEN v ELSE values[i]]>>
    ELSE <<Append(keys, k), Append(values, v)>>

\* The JSON decoder on the text s from index i (the scanner's scan_once):
\* strings without escapes, non-negative integers, the three literals,
\* arrays and objects.  The result holds the value and the index after it.
RECURSIVE ParseValue(_, _)
RECURSIVE ParseElements(_, _, _)
RECURSIVE ParseMembers(_, _, _, _)

ParseValue(s, i) ==
    LET c == Ch(s, i)
    IN IF c = "\""
       THEN LET close == ScanQuote(s, i + 1)
            IN IF close = 0 THEN ParseFail
               ELSE ParseOk(PyStr(SubSeq(s, i + 1, close - 1)), close + 1)
       ELSE IF c = "0" THEN ParseOk(PyNum("0"), i + 1)
       ELSE IF c \in Digits
       THEN LET j == ScanDigits(s, i) IN ParseOk(PyNum(SubSeq(s, i, j - 1)), j)
       ELSE IF c = "["
       THEN LET j == SkipWs(s, i + 1)
            IN IF Ch(s, j) = "]" THEN ParseOk(PyList(<<>>), j + 1)
               ELSE ParseElements(s, j, <<>>)
       ELSE IF c = "{"
       THEN LET j == SkipWs(s, i + 1)
            IN IF Ch(s, j) = "}" THEN ParseOk(PyDict(<<>>, <<>>), j + 1)
               ELSE ParseMembers(s, j, <<>>, <<>>)
       ELSE IF c = "n" /\ i + 3 <= Len(s) /\ SubSeq(s, i, i + 3) = "null"
       THEN ParseOk(PyLiteral("null"), i + 4)
       ELSE IF c = "t" /\ i + 3 <= Len(s) /\ SubSeq(s, i, i + 3) = "true"
       THEN ParseOk(PyLiteral("true"), i + 4)
       ELSE IF c = "f" /\ i + 4 <= Len(s) /\ SubSeq(s, i, i + 4) = "false"
       THEN ParseOk(PyLiteral("false"), i + 5)
       ELSE ParseFail

\* The elements of an array from index i, after the elements of acc.
ParseElements(s, i, acc) ==
    LET v == ParseValue(s, i)
    IN IF ~v.ok THEN ParseFail
       ELSE LET j == SkipWs(s, v.next)
            IN IF Ch(s, j) = "]" THEN ParseOk(PyList(Append(acc, v.val)), j + 1)
               ELSE IF Ch(s, j) = ","
               THEN ParseElements(s, SkipWs(s, j + 1), Append(acc, v.val))
               ELSE ParseFail

\* The members of an object from index i, after those of keys and values.
ParseMembers(s, i, keys, values) ==
    IF Ch(s, i) # "\"" THEN ParseFail
    ELSE LET close == ScanQuote(s, i + 1)
         IN IF close = 0 THEN ParseFail
            ELSE LET key == PyStr(SubSeq(s, i + 1, close - 1))
                     colon == SkipWs(s, close + 1)
                 IN IF Ch(s, colon) # ":" THEN ParseFail
                    ELSE LET v == ParseValue(s, SkipWs(s, colon + 1))
                         IN IF ~v.ok THEN ParseFail
                            ELSE LET j == SkipWs(s, v.next)
                                     kv == DictSet(keys, values, key, v.val)
                                 IN IF Ch(s, j) = "}"
                                    THEN ParseOk(PyDict(kv[1], kv[2]), j + 1)
                                    ELSE IF Ch(s, j) = ","
                                    THEN ParseMembers(s, SkipWs(s, j + 1), kv[1], kv[2])
                                    ELSE ParseFail

\* json.loads(s): one value between optional whitespace, and nothing after
\* it ("Extra data"); ok is FALSE where json.loads raises JSONDecodeError.
json_loads(s) ==
    LET v == ParseValue(s, SkipWs(s, 1))
    IN IF ~v.ok THEN ParseFail
       ELSE IF SkipWs(s, v.next) <= Len(s) THEN ParseFail
       ELSE v

\* list(s) for a str s: its characters.
ListOfStr(s) == [i \in 1..Len(s) |-> SubSeq(s, i, i)]

\* Whether `for x in v` can iterate v (else TypeError).
PyIterable(v) == v.kind \in {"list", "str", "dict"}

\* The values `for x in v` binds x to: the items of a list, the characters
\* of a str, the keys of a dict.
PyIter(v) ==
    IF v.kind = "str" THEN [i \in 1..Len(v.str) |-> PyStr(SubSeq(v.str, i, i))]
    ELSE v.items

\* sep.join(l) for a sequence l of TLA+ strings.
RECURSIVE JoinStrings(_, _)
JoinStrings(sep, l) ==
    IF l = <<>> THEN ""
    ELSE IF Len(l) = 1 THEN l[1]
    ELSE l[1] \o sep \o JoinStrings(sep, Tail(l))

\* Whether sep.join(v) returns: v is iterable and each item is a str.
PyJoinable(v) ==
    PyIterable(v) /\ \A i \in DOMAIN PyIter(v) : PyIter(v)[i].kind = "str"

PyJoin(sep, v) == JoinStrings(sep, [i \in DOMAIN PyIter(v) |-> PyIter(v)[i].str])

\* format(v) inside an f-string, for the values a question can be.
RECURSIVE PyFormat(_)
PyFormat(v) ==
    IF v.kind \in {"str", "num"} THEN v.str
    ELSE IF v.kind = "null" THEN "None"
    ELSE IF v.kind = "true" THEN "True"
    ELSE IF v.kind = "false" THEN "False"
    ELSE IF v.kind = "list"
    THEN "[" \o JoinStrings(", ", [i \in DOMAIN v.items |->
            IF v.items[i].kind = "str" THEN "'" \o v.items[i].str \o "'"
            ELSE PyFormat(v.items[i])]) \o "]"
    ELSE "{" \o JoinStrings(", ", [i \in DOMAIN v.items |->
            "'" \o v.items[i].str \o "': " \o
            (IF v.vals[i].kind = "str" THEN "'" \o v.vals[i].str \o "'"
             ELSE PyFormat(v.vals[i]))]) \o "}"

-----------------------------------------------------------------------------
(* The questionnaire handlers: _process_upload, _answer_questionnaire,     *)
(* _generate_pdf                                                           *)

NOT_PDF_MESSAGE == "Please only upload PDF files."
OUTPUT_PATH == "/mnt/data/filled_questionnaire.pdf"

\* s.endswith(suffix)
EndsWith(s, suffix) ==
    Len(suffix) <= Len(s) /\ SubSeq(s, Len(s) - Len(suffix) + 1, Len(s)) = suffix

\* The inputs the model draws from: the uploaded file (None, or its name),
\* and completion.response of the extraction call and of an answering call.
QuestionnaireFiles == {None, Some("/t/q.pdf"), Some("/t/q.txt")}

ExtractionReplies ==
    { "[\"a?\",\"b?\"]", "[\"a?\", \"a?\"]", "[]",
      "not json", "['a?','b?']", "[\"a?\"] x",
      "{\"a?\": 5}", "5", "\"a?\"", "[5]", "null" }

AnswerReplies == {"ja", "no"}

\* json.loads of each reply of the extraction call the model draws.
ExtractionResult == [r \in ExtractionReplies |-> json_loads(r)]

\* An (question, answer) tuple of self.answers.
Pair(q, a) == [question |-> q, answer |-> a]

QuestCall(op, status, result, response, replies) ==
    [op |-> op, status |-> status, result |-> result, file |-> None,
     response |-> response, replies |-> replies,
     pre_questions |-> questions, pre_answers |-> answers]

\* A call of _process_upload(file): response is the reply of the generation
\* call of _extract_questions, None when the handler issued none.
UploadCall(file, status, result, response) ==
    [QuestCall("process_upload", status, result, response, <<>>) EXCEPT !.file = file]

InitQuest ==
    /\ sessions = {1}
    /\ IdleStream
    /\ IdleCorpus
    /\ IdleQuest

\* _process_upload(file).  The collaborators may raise: reading the PDF
\* (read_ok), and the generation call of _extract_questions (reply is None).
ProcessUpload ==
    /\ \E file \in QuestionnaireFiles :
          IF file.none
          THEN \* file.name on None
               /\ qlast' = UploadCall(file, "AttributeError", "", None)
               /\ UNCHANGED <<questions, answers>>
          ELSE IF ~EndsWith(file.val, ".pdf")
          THEN /\ qlast' = UploadCall(file, "ok", NOT_PDF_MESSAGE, None)
               /\ UNCHANGED <<questions, answers>>
          ELSE \E read_ok \in BOOLEAN :
            IF ~read_ok
            THEN /\ qlast' = UploadCall(file, "PdfError", "", None)
                 /\ UNCHANGED <<questions, answers>>
            ELSE \E reply \in {None} \cup {Some(r) : r \in ExtractionReplies} :
              IF reply.none
              THEN /\ qlast' = UploadCall(file, "GenerationError", "", None)
                   /\ UNCHANGED <<questions, answers>>
              ELSE LET parsed == ExtractionResult[reply.val]
                   IN IF ~parsed.ok
                      THEN /\ qlast' = UploadCall(file, "JSONDecodeError", "", reply)
                           /\ UNCHANGED <<questions, answers>>
                      ELSE /\ questions' = parsed.val
                           /\ UNCHANGED answers
                           /\ qlast' = IF PyJoinable(parsed.val)
                                       THEN UploadCall(file, "ok", PyJoin("\n", parsed.val), reply)
                                       ELSE UploadCall(file, "TypeError", "", reply)
    /\ quest_session' \in sessions
    /\ UNCHANGED <<pdf_file, answers_by, has_answered>>
    /\ UNCHANGED otherThanQuest

\* self.answers once the loop of _answer_questionnaire has answered the
\* first n of the questions qs with the replies given (lines 173-176).
RunAnswers_Accumulate(old_answers, qs, replies, n) ==
    old_answers \o [i \in 1..n |-> Pair(qs[i], ListOfStr(replies[i]))]

RunAnswers(old_answers, qs, replies, n) ==
    [i \in 1..n |-> Pair(qs[i], ListOfStr(replies[i]))]

\* f"Q: {q}\nA: {''.join(a)}\n\n"
Block_QuestionOnly(pair) ==
    "Q: " \o PyFormat(pair.question) \o "\n\n"

Block(pair) ==
    "Q: " \o PyFormat(pair.question) \o "\nA: " \o JoinStrings("", pair.answer) \o "\n\n"

\* _answer_questionnaire.  The generation call of question fail_at raises
\* (fail_at = 0: none does).
AnswerQuestionnaire ==
    /\ IF ~PyIterable(questions)
       THEN /\ answers' = <<>>
            /\ qlast' = QuestCall("answer", "TypeError", "", None, <<>>)
       ELSE LET qs == PyIter(questions)
                n == Len(qs)
            IN \E replies \in [1..n -> AnswerReplies], fail_at \in 0..n :
                  LET answered == IF fail_at = 0 THEN n ELSE fail_at - 1
                      new == RunAnswers(answers, qs, replies, answered)
                  IN /\ answers' = new
                     /\ qlast' =
                          IF fail_at = 0
                          THEN QuestCall("answer", "ok",
                                   JoinStrings("\n", [i \in DOMAIN new |-> Block(new[i])]),
                                   None, SubSeq(replies, 1, answered))
                          ELSE QuestCall("answer", "GenerationError", "",
                                   None, SubSeq(replies, 1, answered))
    /\ quest_session' \in sessions
    /\ answers_by' = quest_session'
    /\ has_answered' = (has_answered \/ qlast'.status = "ok")
    /\ UNCHANGED <<questions, pdf_file>>
    /\ UNCHANGED otherThanQuest

\* _generate_pdf: one text block per pair, written over the file at the
\* fixed path.
GeneratePdf ==
    /\ pdf_file' = [exists |-> TRUE,
                    blocks |-> [i \in DOMAIN answers |-> Block(answers[i])]]
    /\ qlast' = QuestCall("generate_pdf", "ok", OUTPUT_PATH, None, <<>>)
    /\ quest_session' \in sessions
    /\ UNCHANGED <<questions, answers, answers_by, has_answered>>
    /\ UNCHANGED otherThanQuest

NextQuest == ProcessUpload \/ AnswerQuestionnaire \/ GeneratePdf

SpecQuest == InitQuest /\ [][NextQuest]_vars

-----------------------------------------------------------------------------
(* Two client sessions on the one PrivateGptUi instance.  The handlers of   *)
(* both sessions run on the same object (the fields of __init__, lines      *)
(* 60-78), one handler invocation at a time, in any order.                  *)

\* The instance as two sessions find it: the corpus holds one Document for
\* each of two files, and session 1 has had a questionnaire extracted.
InitShared ==
    /\ sessions = {1, 2}
    /\ IdleStream
    /\ corpus = <<Document(1, Meta({<<"file_name", "a.pdf">>})),
                  Document(2, Meta({<<"file_name", "b.pdf">>}))>>
    /\ next_doc_id = 3
    /\ selected_filename = None
    /\ clast = [op |-> "init", status |-> "ok", files |-> <<>>, listed |-> {},
                pre_corpus |-> <<>>, pre_selected |-> None]
    /\ corpus_session = 0
    /\ selected_by = 0
    /\ selection_of = [s \in sessions |-> None]
    /\ questions = PyList(<<PyStr("a?")>>)
    /\ answers = <<>>
    /\ pdf_file = [exists |-> FALSE, blocks |-> <<>>]
    /\ qlast = [op |-> "process_upload", status |-> "ok", result |-> "a?",
                file |-> Some("/t/q.pdf"), response |-> Some("[\"a?\"]"),
                replies |-> <<>>, pre_questions |-> PyList(<<>>), pre_answers |-> <<>>]
    /\ quest_session = 1
    /\ answers_by = 0
    /\ has_answered = FALSE

NextShared ==
    \/ SelectedAFile
    \/ DeleteSelectedFile
    \/ AnswerQuestionnaire
    \/ GeneratePdf

SpecShared == InitShared /\ [][NextShared]_vars

-----------------------------------------------------------------------------
(* Properties of yield_deltas and curate_sources, checked under SpecStream *)

\* The concatenation of the texts of the first k deltas of s.
RECURSIVE ConcatDeltas(_, _)
ConcatDeltas(s, k) ==
    IF k = 0 THEN "" ELSE ConcatDeltas(s, k - 1) \o s[k].text

AllPlain == \A i \in DOMAIN stream : stream[i].kind = "str"

Min(a, b) == IF a <= b THEN a ELSE b

IsCitationElement(i) ==
    spc = "done" /\ SourcesTruthy(sources) /\ i = Len(yielded)

ChunkPair(chunk) ==
    LET md == chunk.document.doc_metadata
    IN << IF ~md.none /\ DictHas(md.map, "file_name")
          THEN DictGet(md.map, "file_name", "") ELSE "-",
          IF ~md.none /\ DictHas(md.map, "page_label")
          THEN DictGet(md.map, "page_label", "") ELSE "-" >>

\* The number of places at which sub occurs in s.
Occurrences(s, sub) ==
    Cardinality({i \in 1..(Len(s) - Len(sub) + 1) :
                    SubSeq(s, i, i + Len(sub) - 1) = sub})

\* C7: with sources, exactly one element follows the per-delta prefixes: the
\* concatenation of the deltas, the separator, and a citation list with
\* exactly one line per distinct (file, page) pair, in first-seen order.
C7_OneLinePerDistinctPair ==
    (spc = "done" /\ SourcesTruthy(sources)) =>
        LET last == yielded[Len(yielded)]
            head == ConcatDeltas(stream, Len(stream)) \o SOURCES_SEPARATOR
            pairs == UniqueKeepFirst([i \in DOMAIN sources.items |->
                                         ChunkPair(sources.items[i])])
            lines == CitationLines(cur_sources)
        IN /\ Len(yielded) = Len(stream) + 1
           /\ IsPrefix(head, last)
           /\ [i \in DOMAIN lines |-> <<lines[i].source.file, lines[i].source.page>>]
                 = pairs
           /\ \A i \in DOMAIN pairs :
                 Occurrences(last, ". " \o pairs[i][1] \o " (page "
                                        \o pairs[i][2] \o ") \n\n") = 1

\* The (file, page, text) triple of a chunk, with the "-" defaults.
ChunkTriple(chunk) ==
    Source(ChunkPair(chunk)[1], ChunkPair(chunk)[2], chunk.text)

\* The index of the first chunk of l whose triple is t.
FirstIndex(l, t) ==
    CHOOSE i \in DOMAIN l :
        /\ ChunkTriple(l[i]) = t
        /\ \A j \in 1..(i - 1) : ChunkTriple(l[j]) # t

\* C8: curate_sources returns the distinct (file, page, text) triples of its
\* input, each once, in order of first occurrence, with file and page "-"
\* when the metadata or the key is absent.
C8_CurateDistinctFirstSeen ==
    (spc = "done" /\ SourcesTruthy(sources)) =>
        LET l == sources.items
            triples == {ChunkTriple(l[i]) : i \in DOMAIN l}
        IN /\ \A i, j \in DOMAIN cur_sources :
                 i # j => cur_sources[i] # cur_sources[j]
           /\ Len(cur_sources) = Cardinality(triples)
           /\ Range(cur_sources) = triples
           /\ \A i, j \in DOMAIN cur_sources :
                 i < j => FirstIndex(l, cur_sources[i]) < FirstIndex(l, cur_sources[j])

C8_Witness ==
    /\ spc = "done"
    /\ Len(sources.items) = 3
    /\ sources.items[1].document.doc_metadata.none
    /\ sources.items[2] = Chunk(Meta({<<"page_label", "2">>}), "t")
    /\ sources.items[3] = Chunk(Meta({}), "t")
    /\ cur_sources = <<Source("-", "-", "t"), Source("-", "2", "t")>>

-----------------------------------------------------------------------------
(* Properties of the corpus handlers, checked under SpecCorpus *)

\* The documents of docs whose file_name is name.
DocsNamed(docs, name) ==
    { d \in Range(docs) :
        /\ ~d.doc_metadata.none
        /\ <<"file_name", name>> \in d.doc_metadata.map }

\* C1: after a successful _upload_file, every incoming name that an existing
\* Document carried is the file_name of exactly one Document, whose doc_id
\* none of the Documents that carried the name before had.
C1_UploadLeavesOneDocumentPerName ==
    (clast.op = "upload" /\ clast.status = "ok") =>
        \A name \in Range(UploadNames(clast.files)) :
            DocsNamed(clast.pre_corpus, name) # {} =>
                /\ Cardinality(DocsNamed(corpus, name)) = 1
                /\ \A d \in DocsNamed(corpus, name) :
                      \A b \in DocsNamed(clast.pre_corpus, name) :
                          d.doc_id # b.doc_id

\* C4: after either delete operation completes, the selected filename is None.
C4_SelectionClearedAfterDelete ==
    (clast.op \in {"delete_selected", "delete_all"} /\ clast.status = "ok") =>
        selected_filename = None

-----------------------------------------------------------------------------
(* Properties of the questionnaire handlers, checked under SpecQuest *)

\* The value v is a list whose items are all strings.
IsListOfStrings(v) ==
    v.kind = "list" /\ \A i \in DOMAIN v.items : v.items[i].kind = "str"

\* The pairs the last answering run produced, one per reply it received.
PairsOfLastRun ==
    { Pair(PyIter(questions)[i], ListOfStr(qlast.replies[i])) :
        i \in DOMAIN qlast.replies }

\* C2: when a generation call fails during _answer_questionnaire (here on
\* a question list that is a list of strings), the transcript afterwards
\* holds none of the pairs answered in that run.
C2_FailedRunKeepsNoPair ==
    (qlast.op = "answer" /\ qlast.status = "GenerationError"
        /\ IsListOfStrings(questions)) =>
        \A i \in DOMAIN answers : answers[i] \notin PairsOfLastRun

\* C3: immediately after a _process_upload that extracted a list of
\* questions, the transcript self.answers is empty.
C3_ExtractionEmptiesTranscript ==
    (qlast.op = "process_upload" /\ qlast.status = "ok" /\ ~qlast.response.none
        /\ IsListOfStrings(questions) /\ IsListOfStrings(qlast.pre_questions)) =>
        answers = <<>>

IsJsonArrayOfStrings(text) ==
    json_loads(text).ok /\ IsListOfStrings(json_loads(text).val)

\* C10: self.questions is a list of strings in every reachable state, and
\* when the extraction reply is not a well-formed JSON array of strings
\* _process_upload fails and leaves self.questions as it was.
C10_ExtractionRejectsNonArrays ==
    /\ IsListOfStrings(questions)
    /\ (qlast.op = "process_upload" /\ ~qlast.response.none
            /\ ~IsJsonArrayOfStrings(qlast.response.val)) =>
          /\ qlast.status # "ok"
          /\ questions = qlast.pre_questions

-----------------------------------------------------------------------------
(* Properties of the questionnaire slot's input check, under SpecQuest *)

\* The file given to _process_upload is absent (None) or not named *.pdf.
NotAPdf(file) == file.none \/ ~EndsWith(file.val, ".pdf")

\* C11: a non-PDF or absent input given to _process_upload never raises: the
\* call returns the fixed message, issues no generation call (there is no
\* reply), and leaves the question list and the transcript as they were.
C11_NonPdfInputReturnsMessage ==
    (qlast.op = "process_upload" /\ NotAPdf(qlast.file)) =>
        /\ qlast.status = "ok"
        /\ qlast.result = NOT_PDF_MESSAGE
        /\ qlast.response.none
        /\ questions = qlast.pre_questions
        /\ answers = qlast.pre_answers

-----------------------------------------------------------------------------
(* Properties of the delete handlers, checked under SpecCorpus *)

\* C12: after _delete_selected_file completes with selection s, no Document
\* whose file_name is s remains (all of them are removed when several share
\* the name), and every other Document of the corpus before the call is
\* still there with its doc_id, in the same order; no Document is added.
C12_DeleteSelectedRemovesExactlyTheNamed ==
    (clast.op = "delete_selected" /\ clast.status = "ok" /\ ~clast.pre_selected.none) =>
        LET s == clast.pre_selected.val
            named == DocsNamed(clast.pre_corpus, s)
            others == { i \in DOMAIN clast.pre_corpus : clast.pre_corpus[i] \notin named }
        IN /\ DocsNamed(corpus, s) = {}
           /\ \A i \in others : clast.pre_corpus[i] \in Range(corpus)
           /\ Range(corpus) \subseteq Range(clast.pre_corpus)
           /\ Len(corpus) = Cardinality(others)
           /\ \A i, j \in DOMAIN corpus : i < j => corpus[i].doc_id < corpus[j].doc_id

\* A delete of the selection "a.pdf" that removed two Documents sharing the
\* name and kept a third Document, named otherwise.
C12_Witness ==
    /\ clast.op = "delete_selected"
    /\ clast.status = "ok"
    /\ clast.pre_selected = Some("a.pdf")
    /\ Len(clast.pre_corpus) = 3
    /\ Cardinality(DocsNamed(clast.pre_corpus, "a.pdf")) = 2
    /\ Len(corpus) = 1
    /\ DocsNamed(corpus, "b.pdf") # {}

\* C13: after _delete_all_files completes, the corpus is empty and the list
\* _list_ingested_files returns is empty, whatever the corpus held before.
C13_DeleteAllEmptiesCorpus ==
    (clast.op = "delete_all" /\ clast.status = "ok") =>
        /\ corpus = <<>>
        /\ clast.listed = {}
        /\ list_ingested_files(corpus) = {}

\* A delete_all over a corpus holding a Document without metadata and one
\* whose metadata has no file_name.
C13_Witness ==
    /\ clast.op = "delete_all"
    /\ clast.status = "ok"
    /\ \E d \in Range(clast.pre_corpus) : d.doc_metadata.none
    /\ \E d \in Range(clast.pre_corpus) :
          ~d.doc_metadata.none /\ ~DictHas(d.doc_metadata.map, "file_name")
    /\ corpus = <<>>

-----------------------------------------------------------------------------
(* Properties of two sessions on one instance, checked under SpecShared *)

\* The Documents the last corpus handler call removed.
RemovedByLastCall == Range(clast.pre_corpus) \ Range(corpus)

\* C14: the selection and the transcript are fields of the one instance, so
\* with two sessions whose handler invocations interleave:
\*   - self._selected_filename is the row selected by whichever session
\*     selected last;
\*   - _delete_selected_file, called by any session, removes the Documents
\*     named by that value, also when the caller's own last selection is
\*     another row;
\*   - _generate_pdf, called by any session, renders self.answers as the last
\*     answering run of whichever session left it, one block per pair.
C14_SessionsShareSelectionAndTranscript ==
    /\ selected_by = 0 => selected_filename = None
    /\ selected_by # 0 => selected_filename = selection_of[selected_by]
    /\ (clast.op = "delete_selected" /\ clast.status = "ok") =>
          /\ clast.pre_selected = selected_filename
          /\ RemovedByLastCall =
                IF selected_by = 0 THEN {}
                ELSE DocsNamed(clast.pre_corpus, selection_of[selected_by].val)
    /\ answers # <<>> => answers_by # 0
    /\ qlast.op = "generate_pdf" =>
          /\ answers = qlast.pre_answers
          /\ Len(pdf_file.blocks) = Len(answers)
          /\ \A i \in DOMAIN answers :
                pdf_file.blocks[i] =
                    "Q: " \o answers[i].question.str \o "\nA: "
                          \o JoinStrings("", answers[i].answer) \o "\n\n"

\* Session 1 selected a.pdf, session 2 then selected b.pdf, and the delete
\* of session 1 removed b.pdf and left a.pdf; session 2 ran the answering
\* and the export of session 1 rendered that transcript.
C14_Witness ==
    /\ clast.op = "delete_selected"
    /\ clast.status = "ok"
    /\ corpus_session = 1
    /\ selected_by = 2
    /\ selection_of[1] = Some("a.pdf")
    /\ selection_of[2] = Some("b.pdf")
    /\ DocsNamed(clast.pre_corpus, "a.pdf") # {}
    /\ RemovedByLastCall = DocsNamed(clast.pre_corpus, "b.pdf")
    /\ RemovedByLastCall # {}
    /\ DocsNamed(corpus, "a.pdf") # {}
    /\ qlast.op = "generate_pdf"
    /\ qlast.status = "ok"
    /\ quest_session = 1
    /\ answers_by = 2
    /\ pdf_file.blocks = <<"Q: a?\nA: ja\n\n">>

-----------------------------------------------------------------------------
(* Properties of the export, checked under SpecQuest *)

\* C15: _generate_pdf called while no answering run has yet completed (the
\* stored questions being a list of strings) does not fail: it returns the
\* fixed path, and the document it writes there holds no question/answer
\* block.
C15_ExportBeforeAnyRunIsEmpty ==
    (qlast.op = "generate_pdf" /\ ~has_answered /\ IsListOfStrings(questions)) =>
        /\ qlast.status = "ok"
        /\ qlast.result = OUTPUT_PATH
        /\ pdf_file.exists
        /\ pdf_file.blocks = <<>>

-----------------------------------------------------------------------------
(* Properties of the upload, checked under SpecCorpus *)

\* The Document d carries one of the incoming file names.
NamedByUpload(d, files) ==
    /\ ~d.doc_metadata.none
    /\ \E name \in Range(UploadNames(files)) : <<"file_name", name>> \in d.doc_metadata.map

\* C16: when bulk_ingest fails, _upload_file has already deleted the
\* Documents whose names collide with the incoming files: the error
\* propagates, and the corpus is the corpus before the call without those
\* Documents, with no replacement for them and no other new Document.
C16_FailedUploadLosesReplacedDocuments ==
    (clast.op = "upload" /\ clast.status = "IngestError") =>
        /\ \A d \in Range(clast.pre_corpus) :
              d \in Range(corpus) <=> ~NamedByUpload(d, clast.files)
        /\ Range(corpus) \subseteq Range(clast.pre_corpus)
        /\ \A name \in Range(UploadNames(clast.files)) : DocsNamed(corpus, name) = {}

\* A failed upload of a.pdf over a corpus that held a.pdf: it is gone.
C16_Witness ==
    /\ clast.op = "upload"
    /\ clast.status = "IngestError"
    /\ clast.files = <<"/t1/a.pdf">>
    /\ DocsNamed(clast.pre_corpus, "a.pdf") # {}
    /\ DocsNamed(corpus, "a.pdf") = {}
    /\ Len(corpus) < Len(clast.pre_corpus)

\* C17: _upload_file deletes only Documents whose file_name is one of the
\* incoming names: every Document of the corpus before the call that has no
\* metadata, or whose file_name is not an incoming name, is still in the
\* corpus with its doc_id, whether the call succeeded or raised.
C17_UploadKeepsOtherDocuments ==
    clast.op = "upload" =>
        /\ \A d \in Range(clast.pre_corpus) :
              ~NamedByUpload(d, clast.files) => d \in Range(corpus)
        /\ \A i, j \in DOMAIN corpus : i # j => corpus[i].doc_id # corpus[j].doc_id

\* A successful upload of a.pdf over a corpus holding a Document without
\* metadata, b.pdf and a.pdf: the first two are kept, a.pdf is replaced.
C17_Witness ==
    /\ clast.op = "upload"
    /\ clast.status = "ok"
    /\ clast.files = <<"/t1/a.pdf">>
    /\ Len(clast.pre_corpus) = 3
    /\ clast.pre_corpus[1].doc_metadata.none
    /\ DocsNamed(clast.pre_corpus, "b.pdf") # {}
    /\ DocsNamed(clast.pre_corpus, "a.pdf") # {}
    /\ corpus[1] = clast.pre_corpus[1]
    /\ corpus[2] = clast.pre_corpus[2]
    /\ DocsNamed(corpus, "a.pdf") \cap DocsNamed(clast.pre_corpus, "a.pdf") = {}
    /\ Cardinality(DocsNamed(corpus, "a.pdf")) = 1

-----------------------------------------------------------------------------
(* Properties of yield_deltas on structured deltas and of the numbering of *)
(* its citation lines, checked under SpecStream                            *)

\* C18: a stream holding a structured delta (an object with a text field,
\* not a str) is aggregated like any other: no error is raised, every
\* element yielded for a delta is the concatenation of the texts of the
\* deltas so far, and no delta is left without an element.
C18_StructuredDeltaAccepted ==
    (\E i \in DOMAIN stream : stream[i].kind # "str") =>
        /\ spc # "NameError"
        /\ \A i \in DOMAIN yielded :
              i <= Len(stream) => yielded[i] = ConcatDeltas(stream, i)
        /\ spc = "done" => Len(yielded) >= Len(stream)

\* No two curated sources with different (file, page) pairs share a key of
\* the used_files set.
NoKeyCollision(cur) ==
    \A i, j \in DOMAIN cur :
        UsedKey(cur[i]) = UsedKey(cur[j]) =>
            (cur[i].file = cur[j].file /\ cur[i].page = cur[j].page)

\* C19: the citation lines of the final element are numbered 1, 2, ..., k in
\* order, k being the number of lines emitted, also when curated sources
\* sharing a (file, page) pair are collapsed into one line: the final
\* element is the text, the separator, and those lines renumbered from 1.
C19_CitationLinesNumberedFromOne ==
    (spc = "done" /\ SourcesTruthy(sources) /\ NoKeyCollision(cur_sources)) =>
        LET lines == CitationLines(cur_sources)
            renumbered == [i \in DOMAIN lines |-> [index |-> i, source |-> lines[i].source]]
        IN /\ \A i \in DOMAIN lines : lines[i].index = i
           /\ yielded[Len(yielded)] =
                 ConcatDeltas(stream, Len(stream)) \o SOURCES_SEPARATOR
                     \o "\n\n\n" \o JoinLines(renumbered)

-----------------------------------------------------------------------------
(* Property of the selection flow, checked under SpecCorpus *)

\* C20: a name that _list_ingested_files returns can be removed through the
\* selection flow: with that name selected, _delete_selected_file completes
\* without error and the list it then shows no longer holds the name.
C20_ListedNameCanBeDeleted ==
    (/\ clast.op = "delete_selected"
     /\ ~clast.pre_selected.none
     /\ clast.pre_selected.val \in list_ingested_files(clast.pre_corpus)) =>
        /\ clast.status = "ok"
        /\ clast.pre_selected.val \notin clast.listed
        /\ clast.pre_selected.val \notin list_ingested_files(corpus)

====
